---------------------------- MODULE Spec2Model ----------------------------
(* Model of the retry-policy builder (retry_policy_builder.rs) acting on   *)
(* the config record (retry_policy_config.rs) held by the policy wrapper   *)
(* (retry_policy.rs).                                                      *)
(*                                                                         *)
(* Durations.  The builder only tests durations for zero, compares them,   *)
(* and converts them with Duration::from_nanos(d.as_nanos() as u64).  A    *)
(* duration is therefore modelled by the pair (hi, lo) of its nanosecond   *)
(* count n = hi * 2^64 + lo * 10^9: hi is the part the u64 cast drops and  *)
(* lo is the part it keeps, sampled at whole seconds.  Comparison is       *)
(* lexicographic, which is the comparison of n.                            *)
(*                                                                         *)
(* Floats.  An f64 is modelled by [nan, q]: NaN, or the number q / 2.      *)
(* Comparisons with NaN are false, as in IEEE 754.                         *)
EXTENDS Integers, Sequences, FiniteSets, TLC

VARIABLES config, holds, last, calls, first, script

vars == <<config, holds, last, calls, first, script>>

-----------------------------------------------------------------------------
(* Bounds of the input samples *)

MaxHi == 1
MaxCount == 5

-----------------------------------------------------------------------------
(* Option<T>: None is the empty tuple, Some(v) the one-element tuple *)

None == <<>>
Some(v) == <<v>>
is_some(o) == o # None
unwrap(o) == o[1]

-----------------------------------------------------------------------------
(* std::time::Duration *)

Dur(h, l) == [hi |-> h, lo |-> l]
Duration_ZERO == Dur(0, 0)
from_secs(s) == Dur(0, s)
is_zero(d) == d.hi = 0 /\ d.lo = 0
dur_lt(a, b) == a.hi < b.hi \/ (a.hi = b.hi /\ a.lo < b.lo)
dur_le(a, b) == a = b \/ dur_lt(a, b)
dur_ge(a, b) == ~dur_lt(a, b)
dur_gt(a, b) == dur_lt(b, a)

(* Duration::from_nanos(d.as_nanos() as u64): the cast keeps the low 64 bits *)
safe_duration(d) == Dur(0, d.lo)

-----------------------------------------------------------------------------
(* f64 *)

F64(k) == [nan |-> FALSE, q |-> k]
NaN == [nan |-> TRUE, q |-> 0]
f64_lt(a, b) == ~a.nan /\ ~b.nan /\ a.q < b.q
f64_le(a, b) == ~a.nan /\ ~b.nan /\ a.q <= b.q
f64_gt(a, b) == f64_lt(b, a)

-----------------------------------------------------------------------------
(* i32 *)

I32Max == 2147483647
I32Min == (-2147483647) - 1

-----------------------------------------------------------------------------
(* Input samples *)

(* whole seconds below 2^64 ns, and the durations of 2^64 ns and more that *)
(* the u64 cast turns into 0s and into 1s                                  *)
Durations ==
    { from_secs(s) : s \in {0, 1, 10, 30} } \cup { Dur(h, l) : h \in 1..MaxHi, l \in {0, 1} }

(* 0.5, 1.0, 2.0 and NaN *)
Factors == { F64(1), F64(2), F64(4), NaN }

(* -0.5, 0.0, 0.5, 1.0, 1.5 and NaN *)
JitterFactors == { F64(-1), F64(0), F64(1), F64(2), F64(3), NaN }

Counts == ((-2)..MaxCount) \cup { I32Min, I32Max }

-----------------------------------------------------------------------------
(* RetryPolicyConfig *)

RetryPolicyConfig_default ==
    [ delay_min |-> None,
      delay_max |-> None,
      delay_factor |-> F64(2),
      max_delay |-> None,
      jitter |-> None,
      jitter_factor |-> F64(0),
      max_duration |-> None,
      max_retries |-> 0 ]

config_with_delay_min(c, delay) == [c EXCEPT !.delay_min = delay]
config_with_delay_max(c, delay) == [c EXCEPT !.delay_max = delay]
config_with_delay_factor(c, factor) == [c EXCEPT !.delay_factor = factor]
config_with_max_delay(c, delay) == [c EXCEPT !.max_delay = delay]
config_with_jitter(c, j) == [c EXCEPT !.jitter = j]
config_with_jitter_factor(c, factor) == [c EXCEPT !.jitter_factor = factor]
config_with_max_duration(c, duration) == [c EXCEPT !.max_duration = duration]
config_with_max_retries(c, retries) == [c EXCEPT !.max_retries = retries]

-----------------------------------------------------------------------------
(* PolicyResult<RetryPolicyBuilder>: on Err the record carries the config  *)
(* as the call left it at the moment of the return.                        *)

Ok(c) == [ok |-> TRUE, err |-> "", config |-> c]
Err(msg, c) == [ok |-> FALSE, err |-> msg, config |-> c]

-----------------------------------------------------------------------------
(* RetryPolicyBuilder methods, as functions from the builder's config and  *)
(* the arguments to the result.                                            *)

(* variant: the delay is not checked against max_duration *)
with_backoff_unchecked(self, delay, max_delay, delay_factor) ==
    IF is_zero(delay)
      THEN Err("The delay must be greater than zero", self)
    ELSE IF is_some(self.jitter) /\ dur_lt(delay, unwrap(self.jitter))
      THEN Err("Delay must be greater than or equal to the jitter duration", self)
    ELSE IF dur_ge(delay, max_delay)
      THEN Err("Delay must be less than the max delay", self)
    ELSE IF f64_le(delay_factor, F64(2))
      THEN Err("Delay factor must be greater than 1", self)
    ELSE Ok(config_with_delay_max(
              config_with_delay_min(
                config_with_delay_factor(
                  config_with_max_delay(self, Some(max_delay)),
                  delay_factor),
                None),
              None))

(* variant: a factor of exactly 1.0 is not rejected *)
with_backoff_allows_factor_1(self, delay, max_delay, delay_factor) ==
    IF is_zero(delay)
      THEN Err("The delay must be greater than zero", self)
    ELSE IF is_some(self.max_duration) /\ dur_ge(delay, unwrap(self.max_duration))
      THEN Err("Delay must be less than the max duration", self)
    ELSE IF is_some(self.jitter) /\ dur_lt(delay, unwrap(self.jitter))
      THEN Err("Delay must be greater than or equal to the jitter duration", self)
    ELSE IF dur_ge(delay, max_delay)
      THEN Err("Delay must be less than the max delay", self)
    ELSE IF f64_lt(delay_factor, F64(2))
      THEN Err("Delay factor must be greater than 1", self)
    ELSE Ok(config_with_delay_max(
              config_with_delay_min(
                config_with_delay_factor(
                  config_with_max_delay(self, Some(max_delay)),
                  delay_factor),
                None),
              None))

with_backoff(self, delay, max_delay, delay_factor) ==
    IF is_zero(delay)
      THEN Err("The delay must be greater than zero", self)
    ELSE IF is_some(self.max_duration) /\ dur_ge(delay, unwrap(self.max_duration))
      THEN Err("Delay must be less than the max duration", self)
    ELSE IF is_some(self.jitter) /\ dur_lt(delay, unwrap(self.jitter))
      THEN Err("Delay must be greater than or equal to the jitter duration", self)
    ELSE IF dur_ge(delay, max_delay)
      THEN Err("Delay must be less than the max delay", self)
    ELSE IF f64_le(delay_factor, F64(2))
      THEN Err("Delay factor must be greater than 1", self)
    ELSE Ok(config_with_delay_max(
              config_with_delay_min(
                config_with_delay_factor(
                  config_with_max_delay(self, Some(max_delay)),
                  delay_factor),
                None),
              None))

(* variant: another growth factor *)
with_simple_backoff_factor_3(self, delay, max_delay) ==
    with_backoff(self, delay, max_delay, F64(6))

with_simple_backoff(self, delay, max_delay) ==
    with_backoff(self, delay, max_delay, F64(4))

(* variant: the delay is not checked against max_duration *)
with_delay_unchecked(self, delay0) ==
    IF is_zero(delay0)
      THEN Err("Delay must not be None", self)
    ELSE LET delay == safe_duration(delay0) IN
    IF is_some(self.jitter) /\ dur_lt(delay, unwrap(self.jitter))
      THEN Err("Delay must be greater than or equal to the jitter duration", self)
    ELSE Ok(config_with_delay_max(
              config_with_delay_min(
                config_with_max_delay(self, None),
                None),
              None))

(* variant: the lower end of the random range is not cleared *)
with_delay_keeps_delay_min(self, delay0) ==
    IF is_zero(delay0)
      THEN Err("Delay must not be None", self)
    ELSE LET delay == safe_duration(delay0) IN
    IF is_some(self.max_duration) /\ dur_ge(delay, unwrap(self.max_duration))
      THEN Err("Delay must be less than the max duration", self)
    ELSE IF is_some(self.jitter) /\ dur_lt(delay, unwrap(self.jitter))
      THEN Err("Delay must be greater than or equal to the jitter duration", self)
    ELSE Ok(config_with_delay_max(
              config_with_max_delay(self, None),
              None))

with_delay(self, delay0) ==
    IF is_zero(delay0)
      THEN Err("Delay must not be None", self)
    ELSE LET delay == safe_duration(delay0) IN
    IF is_some(self.max_duration) /\ dur_ge(delay, unwrap(self.max_duration))
      THEN Err("Delay must be less than the max duration", self)
    ELSE IF is_some(self.jitter) /\ dur_lt(delay, unwrap(self.jitter))
      THEN Err("Delay must be greater than or equal to the jitter duration", self)
    ELSE Ok(config_with_delay_max(
              config_with_delay_min(
                config_with_max_delay(self, None),
                None),
              None))

(* variant: the range is stored before the remaining cross-field checks *)
with_delay_min_max_early_store(self, delay_min0, delay_max0) ==
    IF is_zero(delay_min0) \/ is_zero(delay_max0)
      THEN Err("delayMin and delayMax must not be None", self)
    ELSE LET delay_min == safe_duration(delay_min0)
             delay_max == safe_duration(delay_max0)
             stored == config_with_delay_max(
                         config_with_delay_min(self, Some(delay_min)),
                         Some(delay_max)) IN
    IF is_zero(delay_min) \/ dur_lt(delay_min, Duration_ZERO)
      THEN Err("delayMin must be greater than 0", self)
    ELSE IF is_zero(delay_max) \/ dur_lt(delay_max, Duration_ZERO)
      THEN Err("delayMax must be greater than 0", self)
    ELSE IF dur_ge(delay_min, delay_max)
      THEN Err("delayMin must be less than delayMax", self)
    ELSE IF is_some(self.max_duration) /\ dur_ge(delay_max, unwrap(self.max_duration))
      THEN Err("delayMax must be less than the max duration", stored)
    ELSE IF is_some(self.jitter) /\ dur_lt(delay_min, unwrap(self.jitter))
      THEN Err("delayMin must be greater than or equal to the jitter duration", stored)
    ELSE Ok(config_with_max_delay(stored, None))

(* variant: the range is not checked against max_duration *)
with_delay_min_max_unchecked(self, delay_min0, delay_max0) ==
    IF is_zero(delay_min0) \/ is_zero(delay_max0)
      THEN Err("delayMin and delayMax must not be None", self)
    ELSE LET delay_min == safe_duration(delay_min0)
             delay_max == safe_duration(delay_max0) IN
    IF is_zero(delay_min) \/ dur_lt(delay_min, Duration_ZERO)
      THEN Err("delayMin must be greater than 0", self)
    ELSE IF is_zero(delay_max) \/ dur_lt(delay_max, Duration_ZERO)
      THEN Err("delayMax must be greater than 0", self)
    ELSE IF dur_ge(delay_min, delay_max)
      THEN Err("delayMin must be less than delayMax", self)
    ELSE IF is_some(self.jitter) /\ dur_lt(delay_min, unwrap(self.jitter))
      THEN Err("delayMin must be greater than or equal to the jitter duration", self)
    ELSE Ok(config_with_max_delay(
              config_with_delay_max(
                config_with_delay_min(self, Some(delay_min)),
                Some(delay_max)),
              None))

(* variant: the backoff cap is not cleared *)
with_delay_min_max_keeps_max_delay(self, delay_min0, delay_max0) ==
    IF is_zero(delay_min0) \/ is_zero(delay_max0)
      THEN Err("delayMin and delayMax must not be None", self)
    ELSE LET delay_min == safe_duration(delay_min0)
             delay_max == safe_duration(delay_max0) IN
    IF is_zero(delay_min) \/ dur_lt(delay_min, Duration_ZERO)
      THEN Err("delayMin must be greater than 0", self)
    ELSE IF is_zero(delay_max) \/ dur_lt(delay_max, Duration_ZERO)
      THEN Err("delayMax must be greater than 0", self)
    ELSE IF dur_ge(delay_min, delay_max)
      THEN Err("delayMin must be less than delayMax", self)
    ELSE IF is_some(self.max_duration) /\ dur_ge(delay_max, unwrap(self.max_duration))
      THEN Err("delayMax must be less than the max duration", self)
    ELSE IF is_some(self.jitter) /\ dur_lt(delay_min, unwrap(self.jitter))
      THEN Err("delayMin must be greater than or equal to the jitter duration", self)
    ELSE Ok(config_with_delay_max(
              config_with_delay_min(self, Some(delay_min)),
              Some(delay_max)))

with_delay_min_max(self, delay_min0, delay_max0) ==
    IF is_zero(delay_min0) \/ is_zero(delay_max0)
      THEN Err("delayMin and delayMax must not be None", self)
    ELSE LET delay_min == safe_duration(delay_min0)
             delay_max == safe_duration(delay_max0) IN
    IF is_zero(delay_min) \/ dur_lt(delay_min, Duration_ZERO)
      THEN Err("delayMin must be greater than 0", self)
    ELSE IF is_zero(delay_max) \/ dur_lt(delay_max, Duration_ZERO)
      THEN Err("delayMax must be greater than 0", self)
    ELSE IF dur_ge(delay_min, delay_max)
      THEN Err("delayMin must be less than delayMax", self)
    ELSE IF is_some(self.max_duration) /\ dur_ge(delay_max, unwrap(self.max_duration))
      THEN Err("delayMax must be less than the max duration", self)
    ELSE IF is_some(self.jitter) /\ dur_lt(delay_min, unwrap(self.jitter))
      THEN Err("delayMin must be greater than or equal to the jitter duration", self)
    ELSE Ok(config_with_max_delay(
              config_with_delay_max(
                config_with_delay_min(self, Some(delay_min)),
                Some(delay_max)),
              None))

(* variant: a jitter duration is stored instead of cleared *)
with_jitter_stores_duration(self, jitter_factor) ==
    IF f64_lt(jitter_factor, F64(0)) \/ f64_gt(jitter_factor, F64(2))
      THEN Err("jitterFactor must be >= 0 and <= 1", self)
    ELSE Ok(config_with_jitter(
              config_with_jitter_factor(self, jitter_factor),
              Some(from_secs(10))))

with_jitter(self, jitter_factor) ==
    IF f64_lt(jitter_factor, F64(0)) \/ f64_gt(jitter_factor, F64(2))
      THEN Err("jitterFactor must be >= 0 and <= 1", self)
    ELSE Ok(config_with_jitter(
              config_with_jitter_factor(self, jitter_factor),
              None))

(* variant: the attempt count is stored as the retry count *)
with_max_attempts_no_decrement(self, max_attempts) ==
    IF max_attempts = 0
      THEN Err("maxAttempts cannot be 0", self)
    ELSE IF max_attempts < -1
      THEN Err("maxAttempts must be >= -1", self)
    ELSE Ok(config_with_max_retries(self, max_attempts))

(* variant: zero attempts are not rejected *)
with_max_attempts_allows_zero(self, max_attempts) ==
    IF max_attempts < -1
      THEN Err("maxAttempts must be >= -1", self)
    ELSE Ok(config_with_max_retries(self,
              IF max_attempts = -1 THEN -1 ELSE max_attempts - 1))

with_max_attempts(self, max_attempts) ==
    IF max_attempts = 0
      THEN Err("maxAttempts cannot be 0", self)
    ELSE IF max_attempts < -1
      THEN Err("maxAttempts must be >= -1", self)
    ELSE Ok(config_with_max_retries(self,
              IF max_attempts = -1 THEN -1 ELSE max_attempts - 1))

(* variant: strict comparisons against the random-delay range *)
with_max_duration_strict(self, max_duration0) ==
    IF is_zero(max_duration0)
      THEN Err("maxDuration must not be None", self)
    ELSE LET max_duration == safe_duration(max_duration0) IN
    IF is_some(self.delay_min) /\ dur_lt(max_duration, unwrap(self.delay_min))
      THEN Err("maxDuration must be greater than the delay", self)
    ELSE IF is_some(self.delay_max) /\ dur_lt(max_duration, unwrap(self.delay_max))
      THEN Err("maxDuration must be greater than the max random delay", self)
    ELSE Ok(config_with_max_duration(self, Some(max_duration)))

(* variant: the backoff cap is cleared along the way *)
with_max_duration_clears_max_delay(self, max_duration0) ==
    IF is_zero(max_duration0)
      THEN Err("maxDuration must not be None", self)
    ELSE LET max_duration == safe_duration(max_duration0) IN
    IF is_some(self.delay_min) /\ dur_le(max_duration, unwrap(self.delay_min))
      THEN Err("maxDuration must be greater than the delay", self)
    ELSE IF is_some(self.delay_max) /\ dur_le(max_duration, unwrap(self.delay_max))
      THEN Err("maxDuration must be greater than the max random delay", self)
    ELSE Ok(config_with_max_delay(
              config_with_max_duration(self, Some(max_duration)),
              None))

with_max_duration(self, max_duration0) ==
    IF is_zero(max_duration0)
      THEN Err("maxDuration must not be None", self)
    ELSE LET max_duration == safe_duration(max_duration0) IN
    IF is_some(self.delay_min) /\ dur_le(max_duration, unwrap(self.delay_min))
      THEN Err("maxDuration must be greater than the delay", self)
    ELSE IF is_some(self.delay_max) /\ dur_le(max_duration, unwrap(self.delay_max))
      THEN Err("maxDuration must be greater than the max random delay", self)
    ELSE Ok(config_with_max_duration(self, Some(max_duration)))

(* variant: the lower limit is -2 *)
with_max_retries_off_by_one(self, max_retries) ==
    IF max_retries < -2
      THEN Err("maxRetries must be >= -1", self)
    ELSE Ok(config_with_max_retries(self, max_retries))

with_max_retries(self, max_retries) ==
    IF max_retries < -1
      THEN Err("maxRetries must be >= -1", self)
    ELSE Ok(config_with_max_retries(self, max_retries))

-----------------------------------------------------------------------------
(* The call record: the most recent builder call, its arguments and its    *)
(* outcome.                                                                *)

Call(op, d1, d2, f, n, r) ==
    [op |-> op, d1 |-> d1, d2 |-> d2, f |-> f, n |-> n, ok |-> r.ok, err |-> r.err]

NoCall(op) ==
    [op |-> op, d1 |-> None, d2 |-> None, f |-> None, n |-> None, ok |-> TRUE, err |-> ""]

(* build_test: the chain of the test, step k being its k-th call *)
build_test_step(k) ==
    CASE k = 1 -> [op |-> "with_simple_backoff", d1 |-> Some(from_secs(1)),
                   d2 |-> Some(from_secs(10)), f |-> None, n |-> None]
      [] k = 2 -> [op |-> "with_jitter", d1 |-> None, d2 |-> None,
                   f |-> Some(F64(1)), n |-> None]
      [] k = 3 -> [op |-> "with_max_attempts", d1 |-> None, d2 |-> None,
                   f |-> None, n |-> Some(5)]
      [] k = 4 -> [op |-> "with_max_duration", d1 |-> Some(from_secs(30)),
                   d2 |-> None, f |-> None, n |-> None]
      [] k = 5 -> [op |-> "with_max_retries", d1 |-> None, d2 |-> None,
                   f |-> None, n |-> Some(3)]
      [] k = 6 -> [op |-> "build", d1 |-> None, d2 |-> None, f |-> None, n |-> None]

build_test_len == 6

(* Position in build_test's chain after one more call c: k when the calls  *)
(* of this builder so far are exactly the first k calls of the chain and   *)
(* all succeeded, -1 once the builder has left the chain, -2 when a call   *)
(* of the chain was rejected (the test's expect would panic).              *)
script_after(s, c) ==
    IF s < 0 \/ s >= build_test_len THEN -1
    ELSE LET e == build_test_step(s + 1) IN
         IF c.op = e.op /\ c.d1 = e.d1 /\ c.d2 = e.d2 /\ c.f = e.f /\ c.n = e.n
           THEN (IF c.ok THEN s + 1 ELSE -2)
           ELSE -1

(* Number of calls this builder has accepted, counted up to 2 *)
calls_after(k, c) == IF c.ok /\ k < 2 THEN k + 1 ELSE k

(* The one call accepted so far, for a builder that has accepted exactly   *)
(* one call                                                                *)
first_after(k, f, c) ==
    IF ~c.ok THEN f
    ELSE IF k = 0 THEN Some(c)
    ELSE None

-----------------------------------------------------------------------------
(* State machine.  Every setter takes the builder by value and returns a   *)
(* PolicyResult, so the caller holds in turn                               *)
(*   "builder": a RetryPolicyBuilder,                                      *)
(*   "ok":      the Ok(builder) a setter returned,                         *)
(*   "err":     the Err(message) a setter returned; the builder moved into *)
(*              the call is dropped, config is what it held on return,     *)
(*   "policy":  the RetryPolicy build returned.                            *)
(* last is the call that produced the value held, if a call produced it.   *)

Init ==
    /\ config = RetryPolicyConfig_default
    /\ holds = "builder"
    /\ last = NoCall("")
    /\ calls = 0
    /\ first = None
    /\ script = 0

Apply(c, r) ==
    /\ holds = "builder"
    /\ config' = r.config
    /\ holds' = IF r.ok THEN "ok" ELSE "err"
    /\ last' = c
    /\ calls' = calls_after(calls, c)
    /\ first' = first_after(calls, first, c)
    /\ script' = script_after(script, c)

(* RetryPolicy::builder(): a fresh builder, once the previous chain ended *)
New ==
    /\ holds \in {"err", "policy"}
    /\ config' = RetryPolicyConfig_default
    /\ holds' = "builder"
    /\ last' = NoCall("")
    /\ calls' = 0
    /\ first' = None
    /\ script' = 0

(* .expect(..) on an Ok result: the caller takes the builder out *)
Expect ==
    /\ holds = "ok"
    /\ holds' = "builder"
    /\ last' = NoCall("")
    /\ UNCHANGED <<config, calls, first, script>>

WithSimpleBackoff(delay, max_delay) ==
    LET r == with_simple_backoff(config, delay, max_delay) IN
    Apply(Call("with_simple_backoff", Some(delay), Some(max_delay), None, None, r), r)

WithBackoff(delay, max_delay, delay_factor) ==
    LET r == with_backoff(config, delay, max_delay, delay_factor) IN
    Apply(Call("with_backoff", Some(delay), Some(max_delay), Some(delay_factor), None, r), r)

WithDelay(delay) ==
    LET r == with_delay(config, delay) IN
    Apply(Call("with_delay", Some(delay), None, None, None, r), r)

WithDelayMinMax(delay_min, delay_max) ==
    LET r == with_delay_min_max(config, delay_min, delay_max) IN
    Apply(Call("with_delay_min_max", Some(delay_min), Some(delay_max), None, None, r), r)

WithJitter(jitter_factor) ==
    LET r == with_jitter(config, jitter_factor) IN
    Apply(Call("with_jitter", None, None, Some(jitter_factor), None, r), r)

WithMaxAttempts(max_attempts) ==
    LET r == with_max_attempts(config, max_attempts) IN
    Apply(Call("with_max_attempts", None, None, None, Some(max_attempts), r), r)

WithMaxDuration(max_duration) ==
    LET r == with_max_duration(config, max_duration) IN
    Apply(Call("with_max_duration", Some(max_duration), None, None, None, r), r)

WithMaxRetries(max_retries) ==
    LET r == with_max_retries(config, max_retries) IN
    Apply(Call("with_max_retries", None, None, None, Some(max_retries), r), r)

Build ==
    /\ holds = "builder"
    /\ holds' = "policy"
    /\ last' = NoCall("build")
    /\ script' = script_after(script, NoCall("build"))
    /\ UNCHANGED <<config, calls, first>>

Next ==
    \/ New
    \/ Expect
    \/ \E delay, max_delay \in Durations : WithSimpleBackoff(delay, max_delay)
    \/ \E delay, max_delay \in Durations : \E delay_factor \in Factors :
          WithBackoff(delay, max_delay, delay_factor)
    \/ \E delay \in Durations : WithDelay(delay)
    \/ \E delay_min, delay_max \in Durations : WithDelayMinMax(delay_min, delay_max)
    \/ \E jitter_factor \in JitterFactors : WithJitter(jitter_factor)
    \/ \E max_attempts \in Counts : WithMaxAttempts(max_attempts)
    \/ \E max_duration \in Durations : WithMaxDuration(max_duration)
    \/ \E max_retries \in Counts : WithMaxRetries(max_retries)
    \/ Build

Spec == Init /\ [][Next]_vars

-----------------------------------------------------------------------------
(* Shorthands for the properties *)

Backoffs == { "with_backoff", "with_simple_backoff" }

DurationGetters(c) == { c.delay_min, c.delay_max, c.max_delay, c.jitter, c.max_duration }

-----------------------------------------------------------------------------
(* C1: a rejected setter call leaves all eight config fields as they were  *)
(* before the call, returns a non-empty error message and returns no       *)
(* builder; an accepted call returns the builder.                          *)
C1_RejectedCallLeavesConfig ==
    [][ /\ (~last'.ok) =>
             (config' = config /\ holds' = "err" /\ last'.err # "")
        /\ holds' = "ok" => last'.ok
      ]_vars

(* a call rejected by a cross-field check on a config that differs from    *)
(* the default in the fields the call would have written                   *)
C1_Witness ==
    /\ last.op = "with_delay_min_max"
    /\ ~last.ok
    /\ holds = "err"
    /\ last.err = "delayMax must be less than the max duration"
    /\ is_some(config.max_delay)
    /\ config.delay_min = None

-----------------------------------------------------------------------------
(* C2: max_retries is determined by the most recent successful call among  *)
(* with_max_retries(n) and with_max_attempts(n): every step leaves it at n *)
(* for an accepted with_max_retries(n), at n - 1 (or -1 for n = -1) for an *)
(* accepted with_max_attempts(n), at the default 0 for a new builder (and  *)
(* as long as no call was accepted), and unchanged otherwise.  In build_test's chain with_max_attempts(5) gives  *)
(* 4, the later with_max_retries(3) gives 3, no call of the chain is       *)
(* rejected, and the built config has max_delay = 10s, delay_factor = 2.0, *)
(* jitter_factor = 0.5 and max_duration = 30s.                             *)
C2_MaxRetriesStep ==
    config'.max_retries =
      IF holds \in {"err", "policy"} THEN 0
      ELSE IF last'.ok /\ last'.op = "with_max_retries" THEN unwrap(last'.n)
      ELSE IF last'.ok /\ last'.op = "with_max_attempts"
        THEN (IF unwrap(last'.n) = -1 THEN -1 ELSE unwrap(last'.n) - 1)
      ELSE config.max_retries

C2_BuildTest ==
    /\ calls = 0 => config.max_retries = 0
    /\ script # -2
    /\ script \in {3, 4} => config.max_retries = 4
    /\ script \in {5, 6} =>
         /\ config.max_delay = Some(from_secs(10))
         /\ config.delay_factor = F64(4)
         /\ config.jitter_factor = F64(1)
         /\ config.max_retries = 3
         /\ config.max_duration = Some(from_secs(30))

C2_MostRecentCountWins ==
    /\ []C2_BuildTest
    /\ [][C2_MaxRetriesStep]_vars

(* build_test's chain has run to its end and the policy is built *)
C2_Witness ==
    /\ script = 6
    /\ holds = "policy"
    /\ config.max_retries = 3

-----------------------------------------------------------------------------
(* C3: after an accepted call every accepted argument is returned          *)
(* unchanged by a config getter: the delay of with_delay and with_backoff, *)
(* the max_delay and factor of with_backoff, the min and max of            *)
(* with_delay_min_max, the factor of with_jitter, the duration of          *)
(* with_max_duration, the count of with_max_retries.                       *)
C3_RoundTrip ==
    last.ok =>
      /\ last.op = "with_delay" => last.d1 \in DurationGetters(config)
      /\ last.op \in Backoffs =>
           /\ last.d1 \in DurationGetters(config)
           /\ config.max_delay = last.d2
      /\ last.op = "with_backoff" => config.delay_factor = unwrap(last.f)
      /\ last.op = "with_delay_min_max" =>
           (config.delay_min = last.d1 /\ config.delay_max = last.d2)
      /\ last.op = "with_jitter" => config.jitter_factor = unwrap(last.f)
      /\ last.op = "with_max_duration" => config.max_duration = last.d1
      /\ last.op = "with_max_retries" => config.max_retries = unwrap(last.n)

-----------------------------------------------------------------------------
(* C4: every duration field that is set is strictly greater than zero      *)
C4_SetDurationsPositive ==
    \A o \in { config.delay_min, config.delay_max, config.max_delay, config.max_duration } :
        is_some(o) => ~is_zero(unwrap(o))

-----------------------------------------------------------------------------
(* C5 as stated: with_simple_backoff(delay, max_delay) with delay > 0 and  *)
(* delay < max_delay succeeds in every builder state, and afterwards       *)
(* delay_factor is 2.0, max_delay is the given one, delay_min and          *)
(* delay_max are unset.                                                    *)
C5_SimpleBackoffAlwaysSucceeds ==
    ( /\ last.op = "with_simple_backoff"
      /\ ~is_zero(unwrap(last.d1))
      /\ dur_lt(unwrap(last.d1), unwrap(last.d2)) )
    => ( /\ last.ok
         /\ config.delay_factor = F64(4)
         /\ config.max_delay = last.d2
         /\ config.delay_min = None
         /\ config.delay_max = None )

(* C5 amended: with_simple_backoff(delay, max_delay) with delay > 0,       *)
(* delay < max_delay, delay < max_duration if max_duration is set and      *)
(* delay >= jitter if the jitter duration is set succeeds, and afterwards  *)
(* delay_factor is 2.0, max_delay is the given one, delay_min and          *)
(* delay_max are unset.                                                    *)
C5_SimpleBackoffSucceedsBelowMaxDuration ==
    [][ ( /\ last'.op = "with_simple_backoff"
          /\ ~is_zero(unwrap(last'.d1))
          /\ dur_lt(unwrap(last'.d1), unwrap(last'.d2))
          /\ is_some(config.max_duration) =>
               dur_lt(unwrap(last'.d1), unwrap(config.max_duration))
          /\ is_some(config.jitter) =>
               dur_ge(unwrap(last'.d1), unwrap(config.jitter)) )
        => ( /\ last'.ok
             /\ config'.delay_factor = F64(4)
             /\ config'.max_delay = last'.d2
             /\ config'.delay_min = None
             /\ config'.delay_max = None )
      ]_vars

(* with_simple_backoff accepted on a builder that has max_duration set *)
C5_Witness ==
    /\ last.op = "with_simple_backoff"
    /\ last.ok
    /\ is_some(config.max_duration)
    /\ config.delay_factor = F64(4)
    /\ config.max_delay = last.d2

-----------------------------------------------------------------------------
(* C6 as stated: a backoff setter called with max_duration set is accepted *)
(* only if max_delay < max_duration.                                       *)
C6_MaxDelayBelowMaxDuration ==
    [][ ( /\ last'.op \in Backoffs
          /\ last'.ok
          /\ is_some(config.max_duration) )
        => dur_lt(unwrap(last'.d2), unwrap(config.max_duration))
      ]_vars

(* C6 amended: a backoff setter called with max_duration set is rejected   *)
(* unless delay < max_duration, so after an accepted one delay <           *)
(* max_duration holds; max_delay is not compared with max_duration.        *)
C6_DelayBelowMaxDuration ==
    [][ ( /\ last'.op \in Backoffs
          /\ is_some(config.max_duration) )
        => ( /\ dur_ge(unwrap(last'.d1), unwrap(config.max_duration)) => ~last'.ok
             /\ last'.ok =>
                  /\ dur_lt(unwrap(last'.d1), unwrap(config.max_duration))
                  /\ config'.max_duration = config.max_duration
                  /\ config'.max_delay = last'.d2 )
      ]_vars

(* a backoff accepted with max_duration set and max_delay >= max_duration *)
C6_Witness ==
    /\ last.op = "with_backoff"
    /\ last.ok
    /\ is_some(config.max_duration)
    /\ dur_lt(unwrap(last.d1), unwrap(config.max_duration))
    /\ dur_ge(unwrap(config.max_delay), unwrap(config.max_duration))

-----------------------------------------------------------------------------
(* C7: with_delay_min_max(min, max) fails whenever min >= max as passed or *)
(* either is zero, and when it succeeds delay_min = min and delay_max =    *)
(* max.                                                                    *)
C7_MinMaxOrdered ==
    last.op = "with_delay_min_max" =>
      /\ ( \/ dur_ge(unwrap(last.d1), unwrap(last.d2))
           \/ is_zero(unwrap(last.d1))
           \/ is_zero(unwrap(last.d2)) ) => ~last.ok
      /\ last.ok => (config.delay_min = last.d1 /\ config.delay_max = last.d2)

-----------------------------------------------------------------------------
(* C8: with_max_duration(d) is rejected and max_duration left unchanged    *)
(* whenever d is zero, or delay_min is set and d <= delay_min, or          *)
(* delay_max is set and d <= delay_max.                                    *)
C8_MaxDurationRejected ==
    [][ ( /\ last'.op = "with_max_duration"
          /\ \/ is_zero(unwrap(last'.d1))
             \/ /\ is_some(config.delay_min)
                /\ dur_le(unwrap(last'.d1), unwrap(config.delay_min))
             \/ /\ is_some(config.delay_max)
                /\ dur_le(unwrap(last'.d1), unwrap(config.delay_max)) )
        => ( /\ ~last'.ok
             /\ config'.max_duration = config.max_duration )
      ]_vars

(* with_max_duration(d) rejected for delay_min < d <= delay_max on a       *)
(* builder that already has a max_duration, which stays                    *)
C8_Witness ==
    /\ last.op = "with_max_duration"
    /\ ~last.ok
    /\ is_some(config.delay_max)
    /\ dur_gt(unwrap(last.d1), unwrap(config.delay_min))
    /\ dur_le(unwrap(last.d1), unwrap(config.delay_max))
    /\ is_some(config.max_duration)

-----------------------------------------------------------------------------
(* C9 as stated: on a builder with max_duration = d, an otherwise valid    *)
(* with_delay_min_max(min, max) with max >= d is accepted.                 *)
C9_LaterDelayMaxAccepted ==
    [][ ( /\ last'.op = "with_delay_min_max"
          /\ is_some(config.max_duration)
          /\ dur_ge(unwrap(last'.d2), unwrap(config.max_duration))
          /\ ~is_zero(safe_duration(unwrap(last'.d1)))
          /\ dur_lt(safe_duration(unwrap(last'.d1)), safe_duration(unwrap(last'.d2)))
          /\ is_some(config.jitter) =>
               dur_ge(safe_duration(unwrap(last'.d1)), unwrap(config.jitter)) )
        => last'.ok
      ]_vars

(* C9 amended: on a builder with max_duration = d, with_delay_min_max(min, *)
(* max) is rejected whenever max, converted to 64-bit nanoseconds, is      *)
(* >= d, and the config stays as it was; so in every reachable state with  *)
(* max_duration and delay_max both set, delay_max < max_duration.          *)
C9_DelayMaxStep ==
    ( /\ last'.op = "with_delay_min_max"
      /\ is_some(config.max_duration)
      /\ dur_ge(safe_duration(unwrap(last'.d2)), unwrap(config.max_duration)) )
    => ( ~last'.ok /\ config' = config )

C9_DelayMaxInv ==
    (is_some(config.max_duration) /\ is_some(config.delay_max))
      => dur_lt(unwrap(config.delay_max), unwrap(config.max_duration))

C9_DelayMaxBelowMaxDuration ==
    /\ []C9_DelayMaxInv
    /\ [][C9_DelayMaxStep]_vars

(* a valid range rejected only because its max reaches max_duration *)
C9_Witness ==
    /\ last.op = "with_delay_min_max"
    /\ ~last.ok
    /\ last.err = "delayMax must be less than the max duration"
    /\ ~is_zero(unwrap(config.max_duration))
    /\ dur_ge(unwrap(last.d2), unwrap(config.max_duration))

-----------------------------------------------------------------------------
(* C10: acceptance depends on the order of the calls.  On a fresh builder  *)
(* with_max_duration(d) and with_delay(x) are each accepted for non-zero   *)
(* arguments.  After with_max_duration(d) alone, with_delay(x) is rejected *)
(* when x >= d (both as converted to 64-bit nanoseconds) and a backoff     *)
(* setter is rejected when its delay >= d; after with_delay(x) or a        *)
(* backoff setter alone, with_max_duration(d) is accepted for every        *)
(* non-zero d.                                                             *)
C10_OrderStep ==
    /\ ( /\ calls = 0
         /\ last'.op \in {"with_max_duration", "with_delay"}
         /\ ~is_zero(unwrap(last'.d1)) )
       => last'.ok
    /\ ( /\ calls = 1
         /\ is_some(first)
         /\ unwrap(first).op = "with_max_duration"
         /\ last'.op = "with_delay"
         /\ dur_ge(safe_duration(unwrap(last'.d1)),
                   safe_duration(unwrap(unwrap(first).d1))) )
       => ~last'.ok
    /\ ( /\ calls = 1
         /\ is_some(first)
         /\ unwrap(first).op = "with_max_duration"
         /\ last'.op \in Backoffs
         /\ dur_ge(unwrap(last'.d1), safe_duration(unwrap(unwrap(first).d1))) )
       => ~last'.ok
    /\ ( /\ calls = 1
         /\ is_some(first)
         /\ unwrap(first).op \in ({"with_delay"} \cup Backoffs)
         /\ last'.op = "with_max_duration"
         /\ ~is_zero(unwrap(last'.d1)) )
       => last'.ok

C10_OrderDependent == [][C10_OrderStep]_vars

(* with_delay(x) rejected right after with_max_duration(d) on a fresh      *)
(* builder, with x >= d                                                    *)
C10_Witness ==
    /\ holds = "err"
    /\ calls = 1
    /\ is_some(first)
    /\ unwrap(first).op = "with_max_duration"
    /\ last.op = "with_delay"
    /\ last.err = "Delay must be less than the max duration"
    /\ dur_ge(unwrap(last.d1), unwrap(unwrap(first).d1))

-----------------------------------------------------------------------------
(* C11: with_max_attempts(n) fails for n = 0 and for every n < -1, down to *)
(* the least i32; for n = -1 it succeeds with max_retries = -1; for every  *)
(* n >= 1, up to the greatest i32, it succeeds with max_retries = n - 1,   *)
(* a value inside the i32 range.                                           *)
C11_MaxAttempts ==
    last.op = "with_max_attempts" =>
      LET n == unwrap(last.n) IN
      /\ (n = 0 \/ n < -1) => ~last.ok
      /\ n = -1 => (last.ok /\ config.max_retries = -1)
      /\ n >= 1 =>
           /\ last.ok
           /\ config.max_retries = n - 1
           /\ config.max_retries >= 0
           /\ config.max_retries < I32Max

(* the greatest i32 accepted as attempt count *)
C11_Witness ==
    /\ last.op = "with_max_attempts"
    /\ unwrap(last.n) = I32Max
    /\ last.ok
    /\ config.max_retries = I32Max - 1

-----------------------------------------------------------------------------
(* C12: with_jitter(f) fails for every f outside [0, 1] (f < 0, f > 1, or  *)
(* not a number), and for every f with 0 <= f <= 1 it succeeds with        *)
(* jitter_factor = f and the jitter duration unset.                        *)
C12_JitterRange ==
    last.op = "with_jitter" =>
      LET f == unwrap(last.f) IN
      IF f64_le(F64(0), f) /\ f64_le(f, F64(2))
        THEN last.ok /\ config.jitter_factor = f /\ config.jitter = None
        ELSE ~last.ok

-----------------------------------------------------------------------------
(* C13: with_backoff(delay, max_delay, factor) fails for every factor      *)
(* <= 1.0, whatever delay and max_delay and whatever the builder state,    *)
(* and leaves delay_factor, max_delay, delay_min and delay_max as they     *)
(* were.                                                                   *)
C13_FactorAtMostOneRejected ==
    [][ ( /\ last'.op = "with_backoff"
          /\ f64_le(unwrap(last'.f), F64(2)) )
        => ( /\ ~last'.ok
             /\ config'.delay_factor = config.delay_factor
             /\ config'.max_delay = config.max_delay
             /\ config'.delay_min = config.delay_min
             /\ config'.delay_max = config.delay_max )
      ]_vars

(* a backoff with valid durations rejected only for its factor of 1.0, on  *)
(* a builder in random-range mode                                          *)
C13_Witness ==
    /\ last.op = "with_backoff"
    /\ ~last.ok
    /\ last.f = Some(F64(2))
    /\ last.err = "Delay factor must be greater than 1"
    /\ is_some(config.delay_min)

-----------------------------------------------------------------------------
(* C14: max_delay and delay_min/delay_max are never set at the same time;  *)
(* an accepted backoff setter leaves max_delay set and delay_min and       *)
(* delay_max unset, an accepted with_delay_min_max leaves delay_min and    *)
(* delay_max set and max_delay unset, an accepted with_delay leaves all    *)
(* three unset.                                                            *)
C14_DelayModesExclusive ==
    /\ ~(is_some(config.max_delay) /\ (is_some(config.delay_min) \/ is_some(config.delay_max)))
    /\ (last.ok /\ last.op \in Backoffs) =>
         /\ is_some(config.max_delay)
         /\ config.delay_min = None
         /\ config.delay_max = None
    /\ (last.ok /\ last.op = "with_delay_min_max") =>
         /\ is_some(config.delay_min)
         /\ is_some(config.delay_max)
         /\ config.max_delay = None
    /\ (last.ok /\ last.op = "with_delay") =>
         /\ config.max_delay = None
         /\ config.delay_min = None
         /\ config.delay_max = None

(* a random range accepted on a builder that was in backoff mode: the      *)
(* factor 2.0 of the earlier backoff is still there, its cap is not        *)
C14_Witness ==
    /\ last.op = "with_delay_min_max"
    /\ last.ok
    /\ config.delay_factor = F64(4)
    /\ calls = 2
    /\ config.max_duration = None
    /\ config.max_delay = None

-----------------------------------------------------------------------------
(* C15: delay_min and delay_max are both unset or both set, and when set   *)
(* the stored delay_min < the stored delay_max.                            *)
C15_RangeOrdered ==
    /\ is_some(config.delay_min) <=> is_some(config.delay_max)
    /\ is_some(config.delay_min) =>
         dur_lt(unwrap(config.delay_min), unwrap(config.delay_max))

(* a range accepted although its arguments as passed were not ordered: the *)
(* stored values are                                                       *)
C15_Witness ==
    /\ last.op = "with_delay_min_max"
    /\ last.ok
    /\ dur_ge(unwrap(last.d1), unwrap(last.d2))
    /\ dur_lt(unwrap(config.delay_min), unwrap(config.delay_max))

-----------------------------------------------------------------------------
(* C16: max_retries >= -1 in every reachable state, whatever calls were    *)
(* accepted or rejected.                                                   *)
C16_MaxRetriesAtLeastMinusOne ==
    config.max_retries >= -1

(* with_max_retries(-2) rejected on a builder holding max_retries = -1 *)
C16_Witness ==
    /\ last.op = "with_max_retries"
    /\ unwrap(last.n) = -2
    /\ ~last.ok
    /\ config.max_retries = -1

-----------------------------------------------------------------------------
(* C17: whenever max_delay is set, delay_factor > 1.0; delay_factor is 1.0 *)
(* on a new builder and every step leaves it at the factor of an accepted  *)
(* with_backoff, at 2.0 for an accepted with_simple_backoff, and unchanged *)
(* otherwise.                                                              *)
C17_FactorInv ==
    /\ is_some(config.max_delay) => f64_gt(config.delay_factor, F64(2))
    /\ calls = 0 => config.delay_factor = F64(2)

C17_FactorStep ==
    config'.delay_factor =
      IF holds \in {"err", "policy"} THEN F64(2)
      ELSE IF last'.ok /\ last'.op = "with_backoff" THEN unwrap(last'.f)
      ELSE IF last'.ok /\ last'.op = "with_simple_backoff" THEN F64(4)
      ELSE config.delay_factor

C17_FactorAboveOneWithMaxDelay ==
    /\ []C17_FactorInv
    /\ [][C17_FactorStep]_vars

-----------------------------------------------------------------------------
(* C18: the jitter duration is unset in every reachable state, and no call *)
(* is rejected for a delay below the jitter duration.                      *)
C18_JitterDurationUnset ==
    /\ config.jitter = None
    /\ last.err \notin
         { "Delay must be greater than or equal to the jitter duration",
           "delayMin must be greater than or equal to the jitter duration" }

(* with_jitter(1.0) was accepted earlier and a delay setter is accepted    *)
(* afterwards                                                              *)
C18_Witness ==
    /\ last.op \in (Backoffs \cup {"with_delay", "with_delay_min_max"})
    /\ last.ok
    /\ config.jitter_factor = F64(2)
    /\ config.jitter = None

-----------------------------------------------------------------------------
(* C19: an accepted setter changes only its own fields: with_max_retries   *)
(* and with_max_attempts only max_retries; with_max_duration only          *)
(* max_duration; with_jitter only jitter_factor and jitter; with_delay and *)
(* with_delay_min_max only max_delay, delay_min and delay_max; the backoff *)
(* setters only max_delay, delay_factor, delay_min and delay_max; build    *)
(* and taking the builder out of an Ok result change nothing.              *)
ConfigFields ==
    { "delay_min", "delay_max", "delay_factor", "max_delay",
      "jitter", "jitter_factor", "max_duration", "max_retries" }

ChangesOnly(fields) ==
    \A f \in ConfigFields \ fields : config'[f] = config[f]

C19_FrameStep ==
    /\ (last'.ok /\ last'.op \in {"with_max_retries", "with_max_attempts"})
         => ChangesOnly({"max_retries"})
    /\ (last'.ok /\ last'.op = "with_max_duration")
         => ChangesOnly({"max_duration"})
    /\ (last'.ok /\ last'.op = "with_jitter")
         => ChangesOnly({"jitter_factor", "jitter"})
    /\ (last'.ok /\ last'.op \in {"with_delay", "with_delay_min_max"})
         => ChangesOnly({"max_delay", "delay_min", "delay_max"})
    /\ (last'.ok /\ last'.op \in Backoffs)
         => ChangesOnly({"max_delay", "delay_factor", "delay_min", "delay_max"})
    /\ (last'.op = "build" \/ holds = "ok")
         => config' = config

C19_Frame == [][C19_FrameStep]_vars

(* with_max_duration accepted on a builder whose backoff, jitter factor    *)
(* and retry count are not the defaults                                    *)
C19_Witness ==
    /\ last.op = "with_max_duration"
    /\ last.ok
    /\ is_some(config.max_delay)
    /\ config.delay_factor = NaN
    /\ config.jitter_factor = F64(1)
    /\ config.max_retries = 4

=============================================================================
